---- MODULE Spec2Model ----
(***************************************************************************)
(* Model of deep_beamline_simulation/u_net.py: the ImageProcessing         *)
(* utilities and the Block / Encoder / Decoder / UNet / ParamUnet modules. *)
(*                                                                         *)
(* Every operation of the file is a pure, synchronous call, so the state   *)
(* is the call being observed: which operation ran, its arguments, what it *)
(* returned (a value or the exception it raised) and what it printed.      *)
(*                                                                         *)
(* Tensors of the network are modelled by their shape and by the history   *)
(* of the layers that produced them (the weights are learned, so a value   *)
(* is identified by the layers applied to the input).  Python values are   *)
(* tagged records:                                                         *)
(*    [kind |-> "tensor", shape, hist]    a torch tensor                   *)
(*    [kind |-> "list",   items]          a Python list of values          *)
(*    [kind |-> "error",  type, at]       an exception raised in layer at  *)
(***************************************************************************)
EXTENDS Integers, Sequences, FiniteSets, TLC

VARIABLES op, args, result, printed

vars == <<op, args, result, printed>>

(***************************************************************************)
(* Bounds of the model.                                                    *)
(***************************************************************************)
MaxDim == 9
MaxGroups == 3
MaxBatch == 2
MaxCrop == 5
MaxSkips == 3
MaxImages == 2
MaxSmall == 2
MaxResize == 4
MaxExtra == 1

(***************************************************************************)
(* Python values.                                                          *)
(***************************************************************************)
Tensor(shape, hist) == [kind |-> "tensor", shape |-> shape, hist |-> hist]

List(items) == [kind |-> "list", items |-> items]

Raise(type, at) == [kind |-> "error", type |-> type, at |-> at]

IsTensor(v) == v.kind = "tensor"

IsError(v) == v.kind = "error"

Layer(name, k) == [op |-> name, k |-> k]

\* v[i] of Python: an item of a list, or a slice of a tensor along its first axis.
GetItem(v, i) ==
    IF v.kind = "list"
    THEN IF i < Len(v.items) THEN v.items[i + 1] ELSE Raise("IndexError", "getitem")
    ELSE IF Len(v.shape) > 0 /\ i < v.shape[1]
         THEN Tensor(Tail(v.shape), Append(v.hist, Layer("select", i)))
         ELSE Raise("IndexError", "getitem")

\* seq[::-1]
Reverse(s) == [i \in 1..Len(s) |-> s[Len(s) + 1 - i]]

\* seq[1:]
Rest(s) == IF Len(s) = 0 THEN s ELSE Tail(s)

(***************************************************************************)
(* ImageProcessing                                                         *)
(***************************************************************************)
\* min_height = 10e4 and min_length = 10e4
SentinelHeight == 100000
SentinelLength == 100000

\* The loop of smallest_image_size over the shapes of image_list[i..].
RECURSIVE SmallestLoop(_, _, _, _)
SmallestLoop(image_list, i, min_height, min_length) ==
    IF i > Len(image_list)
    THEN <<min_height, min_length>>
    ELSE LET height == image_list[i][1]
             length == image_list[i][2]
         IN  SmallestLoop(image_list, i + 1,
                          IF height < min_height THEN height ELSE min_height,
                          IF length < min_length THEN length ELSE min_length)

smallest_image_size(image_list) ==
    SmallestLoop(image_list, 1, SentinelHeight, SentinelLength)

\* cv2.resize(src, dsize=(width, height)): an array of height rows and width
\* columns (a colour image keeps its channel axis); an empty source or a
\* dsize with a side <= 0 (no scale factors are given) is a cv2.error.
cv2_resize(src_shape, dsize) ==
    IF src_shape[1] < 1 \/ src_shape[2] < 1 \/ dsize[1] < 1 \/ dsize[2] < 1
    THEN Raise("cv2.error", "resize")
    ELSE [kind |-> "array", shape |-> <<dsize[2], dsize[1]>> \o SubSeq(src_shape, 3, Len(src_shape))]

\* Variant of resize: dsize given as (height - 1, length - 1).
resize_swapped(image, height, length) == cv2_resize(image, <<height - 1, length - 1>>)

\* ImageProcessing.resize(image, height, length); image is given by its shape.
resize(image, height, length) == cv2_resize(image, <<length - 1, height - 1>>)

\* Largest power of two p with p <= v (v >= 1).
RECURSIVE Pow2Below(_, _)
Pow2Below(v, p) == IF 2 * p > v THEN p ELSE Pow2Below(v, 2 * p)

\* astype("f") on a non-negative integer value: the nearest float32, which
\* has 24 significant bits; a tie goes to the even significand.
ToFloat32(v) ==
    IF v < 16777216 THEN v
    ELSE LET ulp == Pow2Below(v, 1) \div 8388608
             low == (v \div ulp) * ulp
             rem == v - low
         IN  IF 2 * rem < ulp THEN low
             ELSE IF 2 * rem > ulp THEN low + ulp
             ELSE IF (low \div ulp) % 2 = 0 THEN low ELSE low + ulp

\* Variant of Slice: the end index is taken as included.
Slice_inclusive(seq, a, b) ==
    LET hi == IF b + 1 < Len(seq) THEN b + 1 ELSE Len(seq)
    IN  IF a >= hi THEN <<>> ELSE SubSeq(seq, a + 1, hi)

\* seq[a:b] of Python for 0 <= a <= b.
Slice(seq, a, b) ==
    LET hi == IF b < Len(seq) THEN b ELSE Len(seq)
    IN  IF a >= hi THEN <<>> ELSE SubSeq(seq, a + 1, hi)

LossColStart == 17
LossColEnd == 25
LossRowStart == 55
LossRowEnd == 80

\* ImageProcessing.loss_crop(image): image.plane is image[0, 0, :, :] as a
\* sequence of rows.  np.asarray of a list of equal rows is 2-d; of no rows, 1-d.
loss_crop(image) ==
    IF Len(image.shape) # 4 \/ image.shape[1] < 1 \/ image.shape[2] < 1
    THEN Raise("IndexError", "loss_crop")
    ELSE LET cropped_image == [r \in 1..Len(image.plane) |->
                                  Slice(image.plane[r], LossColStart, LossColEnd)]
             rows == Slice(cropped_image, LossRowStart, LossRowEnd)
         IN  [kind |-> "tensor",
              shape |-> IF Len(rows) = 0 THEN <<0>> ELSE <<Len(rows), Len(rows[1])>>,
              dtype |-> "float32",
              plane |-> [r \in 1..Len(rows) |->
                            [c \in 1..Len(rows[r]) |-> ToFloat32(rows[r][c])]]]

(***************************************************************************)
(* torch.nn layers: shape arithmetic and the errors they raise.            *)
(***************************************************************************)
\* A tensor a 2d layer accepts: (N, C, H, W) or unbatched (C, H, W).
Is2dInput(x) == Len(x.shape) \in {3, 4}

ChannelsOf(x) == x.shape[Len(x.shape) - 2]

HeightOf(x) == x.shape[Len(x.shape) - 1]

WidthOf(x) == x.shape[Len(x.shape)]

WithCHW(x, c, h, w) ==
    SubSeq(x.shape, 1, Len(x.shape) - 3) \o <<c, h, w>>

\* nn.Conv2d(in_channels, out_channels, kernel, stride=1, padding)
Conv2d(cin, cout, kernel, padding, x) ==
    IF ~Is2dInput(x) \/ ChannelsOf(x) # cin
       \/ HeightOf(x) + 2 * padding < kernel \/ WidthOf(x) + 2 * padding < kernel
    THEN Raise("RuntimeError", "conv2d")
    ELSE Tensor(WithCHW(x, cout, HeightOf(x) + 2 * padding - kernel + 1,
                                 WidthOf(x) + 2 * padding - kernel + 1), x.hist)

\* nn.ConvTranspose2d(in_channels, out_channels, kernel, stride), kernel = stride
ConvTranspose2d(cin, cout, kernel, stride, x) ==
    IF ~Is2dInput(x) \/ ChannelsOf(x) # cin \/ HeightOf(x) < 1 \/ WidthOf(x) < 1
    THEN Raise("RuntimeError", "upconv")
    ELSE Tensor(WithCHW(x, cout, (HeightOf(x) - 1) * stride + kernel,
                                 (WidthOf(x) - 1) * stride + kernel), x.hist)

\* Variant of MaxPool2d: ceil mode, which keeps a last partial window.
MaxPool2d_ceil(kernel, x) ==
    IF ~Is2dInput(x)
    THEN Raise("RuntimeError", "maxpool")
    ELSE Tensor(WithCHW(x, ChannelsOf(x), (HeightOf(x) + kernel - 1) \div kernel,
                                          (WidthOf(x) + kernel - 1) \div kernel),
                Append(x.hist, Layer("maxpool", 0)))

\* nn.MaxPool2d(kernel): stride = kernel, floor mode; an empty output is an error.
MaxPool2d(kernel, x) ==
    IF ~Is2dInput(x) \/ HeightOf(x) \div kernel < 1 \/ WidthOf(x) \div kernel < 1
    THEN Raise("RuntimeError", "maxpool")
    ELSE Tensor(WithCHW(x, ChannelsOf(x), HeightOf(x) \div kernel,
                                          WidthOf(x) \div kernel),
                Append(x.hist, Layer("maxpool", 0)))

(***************************************************************************)
(* Block                                                                   *)
(***************************************************************************)
\* Block(input_channels, output_channels).forward(x); name/k identify the
\* block inside its ModuleList.  Dropout and ReLU keep the shape.
Block_forward(input_channels, output_channels, name, k, x) ==
    LET x1 == Conv2d(input_channels, output_channels, 3, 1, x)
        x2 == IF IsError(x1) THEN x1
              ELSE Conv2d(output_channels, output_channels, 3, 1, x1)
    IN  IF IsError(x2) THEN x2
        ELSE Tensor(x2.shape, Append(x.hist, Layer(name, k)))

(***************************************************************************)
(* Encoder                                                                 *)
(***************************************************************************)
\* Variant of EncoderLoop: the feature map is collected after pooling.
RECURSIVE EncoderLoop_pooled(_, _, _, _)
EncoderLoop_pooled(num_channels, i, x, output) ==
    IF i >= Len(num_channels) - 1
    THEN List(output)
    ELSE LET x1 == Block_forward(num_channels[i + 1], num_channels[i + 2],
                                 "encoder_blocks", i, x)
             x2 == MaxPool2d(2, x1)
         IN  IF IsError(x1) THEN x1
             ELSE IF IsError(x2) THEN x2
             ELSE EncoderLoop_pooled(num_channels, i + 1, x2, Append(output, x2))

\* The loop of Encoder.forward from block i (0-based) on.
RECURSIVE EncoderLoop(_, _, _, _)
EncoderLoop(num_channels, i, x, output) ==
    IF i >= Len(num_channels) - 1
    THEN List(output)
    ELSE LET x1 == Block_forward(num_channels[i + 1], num_channels[i + 2],
                                 "encoder_blocks", i, x)
             x2 == MaxPool2d(2, x1)
         IN  IF IsError(x1) THEN x1
             ELSE IF IsError(x2) THEN x2
             ELSE EncoderLoop(num_channels, i + 1, x2, Append(output, x1))

Encoder_forward(num_channels, x) == EncoderLoop(num_channels, 0, x, <<>>)

(***************************************************************************)
(* torchvision.transforms.CenterCrop                                       *)
(***************************************************************************)
\* Margin CenterCrop pads in front of an axis of size img shorter than out.
PadBefore(img, out) == IF out > img THEN (out - img) \div 2 ELSE 0

\* Margin CenterCrop pads behind an axis of size img shorter than out.
PadAfter(img, out) == IF out > img THEN (out - img + 1) \div 2 ELSE 0

\* int(round(d / 2.0)) of Python 3: halves round to the even neighbour.
RoundHalf(d) ==
    IF d % 2 = 0 THEN d \div 2
    ELSE IF (d \div 2) % 2 = 0 THEN d \div 2 ELSE d \div 2 + 1

\* Variant of CropOffset: the window starts at the first row / column.
CropOffset_corner(img, out) == 0

\* First index, in the padded axis, of the window CenterCrop keeps.
CropOffset(img, out) ==
    RoundHalf(img + PadBefore(img, out) + PadAfter(img, out) - out)

\* Index in the original axis that output index i (0-based) shows; an index
\* outside 0..img-1 lies in the padding and shows the fill value 0.
SourceIndex(img, out, i) == CropOffset(img, out) + i - PadBefore(img, out)

\* CenterCrop([H, W])(t) on a tensor of shape (..., h, w).
CenterCrop(H, W, t) ==
    IF Len(t.shape) < 2
    THEN Raise("TypeError", "center_crop")
    ELSE Tensor(SubSeq(t.shape, 1, Len(t.shape) - 2) \o <<H, W>>,
                Append(t.hist, [op |-> "center_crop", k |-> 0,
                                top |-> SourceIndex(HeightOf(t), H, 0),
                                left |-> SourceIndex(WidthOf(t), W, 0)]))

\* The pixels of one (h x w) plane after CenterCrop([H, W]): plane[r][c] is
\* 1-based, fill is what the padding holds.
CenterCropPlane(plane, h, w, H, W, fill) ==
    [i \in 1..H |-> [j \in 1..W |->
        LET r == SourceIndex(h, H, i - 1)
            c == SourceIndex(w, W, j - 1)
        IN  IF r \in 0..(h - 1) /\ c \in 0..(w - 1) THEN plane[r + 1][c + 1] ELSE fill]]

(***************************************************************************)
(* torch.cat and torch.mul                                                 *)
(***************************************************************************)
\* torch.cat([x, e], dim=1)
Cat1(x, e) ==
    IF Len(x.shape) # Len(e.shape) \/ Len(x.shape) < 2
       \/ \E d \in 1..Len(x.shape) : d # 2 /\ x.shape[d] # e.shape[d]
    THEN Raise("RuntimeError", "cat")
    ELSE Tensor([d \in 1..Len(x.shape) |->
                    IF d = 2 THEN x.shape[d] + e.shape[d] ELSE x.shape[d]],
                Append(x.hist, [op |-> "cat", k |-> 0, with |-> e.hist]))

\* Size at axis d (counted from the last, 0 = last) of a shape, 1 when absent.
DimFromEnd(shape, d) == IF d < Len(shape) THEN shape[Len(shape) - d] ELSE 1

MaxOf(a, b) == IF a > b THEN a ELSE b

\* torch.mul(m, x) with broadcasting of the two shapes.
Mul(m, x) ==
    LET n == MaxOf(Len(m.shape), Len(x.shape))
    IN  IF \E d \in 0..(n - 1) :
              /\ DimFromEnd(m.shape, d) # DimFromEnd(x.shape, d)
              /\ DimFromEnd(m.shape, d) # 1
              /\ DimFromEnd(x.shape, d) # 1
        THEN Raise("RuntimeError", "mul")
        ELSE Tensor([i \in 1..n |-> MaxOf(DimFromEnd(m.shape, n - i),
                                          DimFromEnd(x.shape, n - i))],
                    Append(x.hist, [op |-> "mul", k |-> 0, with |-> m.hist]))

(***************************************************************************)
(* Decoder                                                                 *)
(***************************************************************************)
\* Variant of Decoder.crop: the encoder feature map is passed on as it is.
Decoder_crop_skipped(encoder_features, x) == encoder_features

\* Decoder.crop(encoder_features, x): "_, _, H, W = x.shape" needs four axes.
Decoder_crop(encoder_features, x) ==
    IF Len(x.shape) # 4
    THEN Raise("ValueError", "crop")
    ELSE CenterCrop(x.shape[3], x.shape[4], encoder_features)

\* The loop of Decoder.forward from step i (0-based) on.  The loop assigns the
\* cropped map to the name encoder_features, which the next step indexes.
RECURSIVE DecoderLoop(_, _, _, _)
DecoderLoop(num_channels, i, x, encoder_features) ==
    IF i >= Len(num_channels) - 1
    THEN x
    ELSE LET up == ConvTranspose2d(num_channels[i + 1], num_channels[i + 2], 2, 2, x)
             x1 == IF IsError(up) THEN up
                   ELSE Tensor(up.shape, Append(up.hist, Layer("upconv_modules", i)))
             e1 == GetItem(encoder_features, i)
             e2 == Decoder_crop(e1, x1)
             x2 == Cat1(x1, e2)
             x3 == Block_forward(num_channels[i + 1], num_channels[i + 2],
                                 "decoder_blocks", i, x2)
         IN  IF IsError(x1) THEN x1
             ELSE IF IsError(e1) THEN e1
             ELSE IF IsError(e2) THEN e2
             ELSE IF IsError(x2) THEN x2
             ELSE IF IsError(x3) THEN x3
             ELSE DecoderLoop(num_channels, i + 1, x3, e2)

Decoder_forward(num_channels, x, encoder_features) ==
    DecoderLoop(num_channels, 0, x, encoder_features)

(***************************************************************************)
(* UNet and ParamUnet                                                      *)
(***************************************************************************)
\* What a forward pass did: the value returned or the exception raised, the
\* statements begun (the last one raised when ret is an error), the output
\* of print().
Run(ret, stages, out) == [ret |-> ret, stages |-> stages, printed |-> out]

\* self.head = nn.Conv2d(decoder_channels[-1], groups, 1), applied to out.
ApplyHead(decoder_channels, groups, out) ==
    LET y == Conv2d(decoder_channels[Len(decoder_channels)], groups, 1, 0, out)
    IN  IF IsError(y) THEN y ELSE Tensor(y.shape, Append(y.hist, Layer("head", 0)))

UNet_forward(encoder_channels, decoder_channels, groups, x) ==
    LET encoder_features == Encoder_forward(encoder_channels, x)
        reversed == Reverse(encoder_features.items)
        seed == GetItem(List(reversed), 0)
        out == Decoder_forward(decoder_channels, seed, List(Rest(reversed)))
        y == ApplyHead(decoder_channels, groups, out)
    IN  IF IsError(encoder_features)
        THEN Run(encoder_features, <<"encoder">>, <<>>)
        ELSE IF IsError(seed)
        THEN Run(seed, <<"encoder", "reverse">>, <<Rest(reversed)>>)
        ELSE IF IsError(out)
        THEN Run(out, <<"encoder", "reverse", "decoder">>, <<Rest(reversed)>>)
        ELSE Run(y, <<"encoder", "reverse", "decoder", "head">>, <<Rest(reversed)>>)

\* Variant of ParamUnet.forward: the input is scaled by m1 before the encoder.
ParamUnet_forward_m1(encoder_channels, decoder_channels, groups, m1, m2, x) ==
    LET x0 == Mul(m1, x)
        encoder_features == IF IsError(x0) THEN x0
                            ELSE Encoder_forward(encoder_channels, x0)
        reversed == Reverse(encoder_features.items)
        seed == GetItem(List(reversed), 0)
        out == Decoder_forward(decoder_channels, seed, List(Rest(reversed)))
        scaled == Mul(m2, out)
        y == ApplyHead(decoder_channels, groups, scaled)
    IN  IF IsError(encoder_features)
        THEN Run(encoder_features, <<"encoder">>, <<>>)
        ELSE IF IsError(seed)
        THEN Run(seed, <<"encoder", "reverse">>, <<>>)
        ELSE IF IsError(out)
        THEN Run(out, <<"encoder", "reverse", "decoder">>, <<>>)
        ELSE IF IsError(scaled)
        THEN Run(scaled, <<"encoder", "reverse", "decoder", "mul_m2">>, <<>>)
        ELSE Run(y, <<"encoder", "reverse", "decoder", "mul_m2", "head">>, <<>>)

\* m1 and m2 are the instance's parameters (tensors of 41 and 40 entries).
ParamUnet_forward(encoder_channels, decoder_channels, groups, m1, m2, x) ==
    LET encoder_features == Encoder_forward(encoder_channels, x)
        reversed == Reverse(encoder_features.items)
        seed == GetItem(List(reversed), 0)
        out == Decoder_forward(decoder_channels, seed, List(Rest(reversed)))
        scaled == Mul(m2, out)
        y == ApplyHead(decoder_channels, groups, scaled)
    IN  IF IsError(encoder_features)
        THEN Run(encoder_features, <<"encoder">>, <<>>)
        ELSE IF IsError(seed)
        THEN Run(seed, <<"encoder", "reverse">>, <<>>)
        ELSE IF IsError(out)
        THEN Run(out, <<"encoder", "reverse", "decoder">>, <<>>)
        ELSE IF IsError(scaled)
        THEN Run(scaled, <<"encoder", "reverse", "decoder", "mul_m2">>, <<>>)
        ELSE Run(y, <<"encoder", "reverse", "decoder", "mul_m2", "head">>, <<>>)

(***************************************************************************)
(* Inputs                                                                  *)
(***************************************************************************)
M1Len == 41
M2Len == 40

EncoderChannels == {<<1, 64>>, <<1, 64, 128>>, <<1, 64, 128, 256>>}

DecoderChannels ==
    {<<64>>, <<128, 64>>, <<64, 32>>, <<128, 64, 32>>,
     <<256, 128, 64>>, <<256, 128>>}

Dims == 1..MaxDim

\* Widths include the two the 40-entry vector m2 broadcasts against.
Widths == Dims \cup {M2Len, M2Len + 1}

InputTensor(b, c, h, w) == Tensor(<<b, c, h, w>>, <<Layer("input", 0)>>)

\* A parameter vector of n entries; id tells two initialisations apart.
Parameter(name, id, n) == Tensor(<<n>>, <<Layer(name, id)>>)

\* Skip maps a caller hands to Decoder.forward: the j-th (0-based) has id j,
\* the channel count that makes step j's concatenation fit num_channels when
\* fit holds, and is extra pixels larger than the tensor step j upsamples.
RECURSIVE Pow2(_)
Pow2(n) == IF n = 0 THEN 1 ELSE 2 * Pow2(n - 1)

SkipList(num_channels, n, b, h, w, extra, fit) ==
    [j \in 1..n |->
        Tensor(<<b,
                 IF fit /\ j + 1 <= Len(num_channels)
                 THEN num_channels[j] - num_channels[j + 1] ELSE 1,
                 Pow2(j) * h + extra, Pow2(j) * w + extra>>,
               <<Layer("skip", j - 1)>>)]

\* A feature-map plane whose pixels are all different and differ from the
\* padding value 0: pixel (r, c) is numbered row by row from 1.
NumberedPlane(h, w) == [r \in 1..h |-> [c \in 1..w |-> (r - 1) * w + c]]

\* Image sizes around the sentinels of smallest_image_size, and small ones.
ImageSizes ==
    (1..MaxSmall) \cup {SentinelHeight - 1, SentinelHeight, SentinelHeight + 1}

ImageLists == UNION {[1..n -> ImageSizes \X ImageSizes] : n \in 0..MaxImages}

\* Shapes of the images handed to resize: grey (h, w) and colour (h, w, 3).
ImageShapes ==
    {<<h, w>> : h \in 0..MaxSmall, w \in 0..MaxSmall}
        \cup {<<h, w, 3>> : h \in 1..MaxSmall, w \in 1..MaxSmall}

\* A (1, 1, rows, cols) tensor of the given dtype for loss_crop; pixel (r, c)
\* holds base + its row-major number, as far as the dtype can hold it.
LossImage(dtype, base, rows, cols) ==
    [kind |-> "tensor", shape |-> <<1, 1, rows, cols>>, dtype |-> dtype,
     plane |-> [r \in 1..rows |-> [c \in 1..cols |->
                   IF dtype = "float32" THEN ToFloat32(base + (r - 1) * cols + c)
                   ELSE base + (r - 1) * cols + c]]]

(***************************************************************************)
(* Operations                                                              *)
(***************************************************************************)
Init ==
    /\ op = "none"
    /\ args = [none |-> 0]
    /\ result = [kind |-> "none"]
    /\ printed = <<>>

CallEncoder ==
    /\ op = "none"
    /\ \E c \in EncoderChannels, b \in 1..MaxBatch, cin \in {1, 3}, h \in Dims, w \in Dims :
        /\ op' = "Encoder.forward"
        /\ args' = [num_channels |-> c, x |-> InputTensor(b, cin, h, w)]
        /\ result' = Encoder_forward(c, InputTensor(b, cin, h, w))
        /\ printed' = <<>>

CallUNet ==
    /\ op = "none"
    /\ \E e \in EncoderChannels, d \in DecoderChannels, g \in 1..MaxGroups,
       b \in 1..MaxBatch, h \in Dims, w \in Widths :
        LET run == UNet_forward(e, d, g, InputTensor(b, 1, h, w))
        IN  /\ op' = "UNet.forward"
            /\ args' = [encoder_channels |-> e, decoder_channels |-> d, groups |-> g,
                        x |-> InputTensor(b, 1, h, w)]
            /\ result' = [kind |-> "run", ret |-> run.ret, stages |-> run.stages]
            /\ printed' = run.printed

CallParamUnet ==
    /\ op = "none"
    /\ \E e \in EncoderChannels, d \in DecoderChannels, g \in 1..MaxGroups,
       b \in 1..MaxBatch, h \in Dims, w \in Widths, i1 \in 1..2 :
        LET m1 == Parameter("m1", i1, M1Len)
            m2 == Parameter("m2", 1, M2Len)
            run == ParamUnet_forward(e, d, g, m1, m2, InputTensor(b, 1, h, w))
        IN  /\ op' = "ParamUnet.forward"
            /\ args' = [encoder_channels |-> e, decoder_channels |-> d, groups |-> g,
                        m1 |-> m1, m2 |-> m2, x |-> InputTensor(b, 1, h, w)]
            /\ result' = [kind |-> "run", ret |-> run.ret, stages |-> run.stages]
            /\ printed' = run.printed

CallDecoder ==
    /\ op = "none"
    /\ \E c \in DecoderChannels, b \in 1..MaxBatch, h \in 1..2, w \in 1..2,
          n \in 0..MaxSkips, extra \in 0..MaxExtra, fit \in BOOLEAN :
        LET x == Tensor(<<b, c[1], h, w>>, <<Layer("input", 0)>>)
            encoder_features == List(SkipList(c, n, b, h, w, extra, fit))
        IN  /\ op' = "Decoder.forward"
            /\ args' = [num_channels |-> c, x |-> x,
                        encoder_features |-> encoder_features]
            /\ result' = Decoder_forward(c, x, encoder_features)
            /\ printed' = <<>>

CallCrop ==
    /\ op = "none"
    /\ \E b \in 1..MaxBatch, c \in {1, 64}, h \in 1..MaxCrop, w \in 1..MaxCrop,
          H \in 1..MaxCrop, W \in 1..MaxCrop :
        LET encoder_features == Tensor(<<b, c, h, w>>, <<Layer("skip", 0)>>)
            x == Tensor(<<b, c, H, W>>, <<Layer("input", 0)>>)
        IN  /\ op' = "Decoder.crop"
            /\ args' = [encoder_features |-> encoder_features, x |-> x,
                        plane |-> NumberedPlane(h, w)]
            /\ result' = [kind |-> "cropped",
                          ret |-> Decoder_crop(encoder_features, x),
                          plane |-> CenterCropPlane(NumberedPlane(h, w), h, w, H, W, 0)]
            /\ printed' = <<>>

CallSmallestImageSize ==
    /\ op = "none"
    /\ \E image_list \in ImageLists :
        /\ op' = "smallest_image_size"
        /\ args' = [image_list |-> image_list]
        /\ result' = [kind |-> "pair", ret |-> smallest_image_size(image_list)]
        /\ printed' = <<>>

CallResize ==
    /\ op = "none"
    /\ \E image \in ImageShapes, height \in 0..MaxResize, length \in 0..MaxResize :
        /\ op' = "resize"
        /\ args' = [image |-> image, height |-> height, length |-> length]
        /\ result' = resize(image, height, length)
        /\ printed' = <<>>

CallLossCrop ==
    /\ op = "none"
    /\ \E dtype \in {"float32", "float64", "int64"}, base \in {0, 16777216},
          rows \in (LossRowEnd - 1)..(LossRowEnd + MaxExtra),
          cols \in (LossColEnd - 1)..(LossColEnd + MaxExtra) :
        /\ op' = "loss_crop"
        /\ args' = [image |-> LossImage(dtype, base, rows, cols)]
        /\ result' = loss_crop(LossImage(dtype, base, rows, cols))
        /\ printed' = <<>>

NextImage ==
    \/ CallSmallestImageSize
    \/ CallResize
    \/ CallLossCrop

NextNet ==
    \/ CallEncoder
    \/ CallDecoder
    \/ CallCrop
    \/ CallUNet
    \/ CallParamUnet

Next == NextImage \/ NextNet

Spec == Init /\ [][Next]_vars

\* The image utilities alone, and the network modules alone.
SpecImage == Init /\ [][NextImage]_vars

SpecNet == Init /\ [][NextNet]_vars

(***************************************************************************)
(* Properties                                                              *)
(***************************************************************************)
\* The call observed is a forward pass of the default configuration,
\* encoder (1, 64, 128) and decoder (128, 64), on an input (1, 1, H, W).
DefaultConfig ==
    /\ args.encoder_channels = <<1, 64, 128>>
    /\ args.decoder_channels = <<128, 64>>
    /\ args.x.shape[1] = 1
    /\ args.x.shape[2] = 1

\* Output shape the convolution / pooling / upsampling arithmetic gives the
\* default configuration on an input (1, 1, H, W).
DefaultOutputShape(groups, H, W) == <<1, groups, 2 * (H \div 2), 2 * (W \div 2)>>

\* C1 as stated: UNet.forward with encoder (1,64,128), decoder (128,64) and any
\* groups >= 1 completes on every input (1,1,H,W) with H >= 2 and W >= 2 and
\* returns a tensor of shape (1, groups, 2*floor(H/2), 2*floor(W/2)).
C1_OnePoolingStageSuffices ==
    (op = "UNet.forward" /\ DefaultConfig
        /\ args.x.shape[3] >= 2 /\ args.x.shape[4] >= 2)
    => /\ IsTensor(result.ret)
       /\ result.ret.shape =
              DefaultOutputShape(args.groups, args.x.shape[3], args.x.shape[4])

\* C1 amended: the encoder pools after each of its two blocks, so the input
\* must survive two poolings; for H >= 4 and W >= 4 UNet.forward completes and
\* returns a tensor of shape (1, groups, 2*floor(H/2), 2*floor(W/2)).
C1_UNetOutputShape ==
    (op = "UNet.forward" /\ DefaultConfig
        /\ args.x.shape[3] >= 4 /\ args.x.shape[4] >= 4)
    => /\ IsTensor(result.ret)
       /\ result.ret.shape =
              DefaultOutputShape(args.groups, args.x.shape[3], args.x.shape[4])

\* C1 witness: the default UNet with groups = 2 on an input (1,1,5,7), an odd
\* size whose skip map has to be cropped, returned a tensor (1,2,4,6).
C1_Witness ==
    /\ op = "UNet.forward" /\ DefaultConfig
    /\ args.groups = 2
    /\ args.x.shape = <<1, 1, 5, 7>>
    /\ IsTensor(result.ret)
    /\ result.ret.shape = <<1, 2, 4, 6>>

\* C2 as stated: ParamUnet.forward with encoder (1,64,128), decoder (128,64)
\* and any groups >= 1 completes on every input (1,1,H,W) large enough for the
\* encoder's poolings (H >= 4, W >= 4), the multiplication by m2 never fails,
\* and the output has the shape UNet gives for that input.
C2_ParamUnetOutputShape ==
    (op = "ParamUnet.forward" /\ DefaultConfig
        /\ args.x.shape[3] >= 4 /\ args.x.shape[4] >= 4)
    => /\ IsTensor(result.ret)
       /\ result.ret.shape =
              DefaultOutputShape(args.groups, args.x.shape[3], args.x.shape[4])

\* Pixel (i, j) of the cropped plane is pixel (top + i, left + j) of the
\* encoder plane, for a window inside the plane whose opposite margins differ
\* by at most one pixel.
IsCentredWindow(h, w, H, W) ==
    \E top \in 0..(h - H), left \in 0..(w - W) :
        /\ (h - H - top) - top \in {-1, 0, 1}
        /\ (w - W - left) - left \in {-1, 0, 1}
        /\ \A i \in 1..H, j \in 1..W :
               result.plane[i][j] = args.plane[top + i][left + j]

\* Some pixel of the cropped plane is the padding value, not an encoder pixel.
HasPadding == \E i \in 1..Len(result.plane) :
                  \E j \in 1..Len(result.plane[i]) : result.plane[i][j] = 0

MinOf(S) == CHOOSE m \in S : \A n \in S : m <= n

\* C4 as stated: for any non-empty image collection, with images of any
\* positive height and width, smallest_image_size returns (h, w) with h the
\* minimum height and w the minimum width over the collection.
C4_SmallestIsMinimum ==
    (op = "smallest_image_size" /\ Len(args.image_list) >= 1)
    => LET images == args.image_list
       IN  /\ result.ret[1] = MinOf({images[i][1] : i \in 1..Len(images)})
           /\ result.ret[2] = MinOf({images[i][2] : i \in 1..Len(images)})

\* The sequence s without its entries equal to e.
RECURSIVE Without(_, _)
Without(s, e) ==
    IF Len(s) = 0 THEN s
    ELSE IF s[1] = e THEN Without(Tail(s), e) ELSE <<s[1]>> \o Without(Tail(s), e)

\* s is an initial part of t.
IsPrefix(s, t) == Len(s) <= Len(t) /\ s = SubSeq(t, 1, Len(s))

LossCropInput ==
    /\ op = "loss_crop"
    /\ args.image.shape[1] = 1 /\ args.image.shape[2] = 1
    /\ args.image.shape[3] >= LossRowEnd /\ args.image.shape[4] >= LossColEnd

\* C6 as stated: on every tensor (1,1,R,C) with R >= 80 and C >= 25 loss_crop
\* returns a (25, 8) tensor whose entry (i, j) is the input's entry
\* (0,0,55+i,17+j), whatever the pixel values.
C6_LossCropCopiesPixels ==
    LossCropInput
    => /\ result.shape = <<25, 8>>
       /\ \A i \in 0..24, j \in 0..7 :
              result.plane[i + 1][j + 1] = args.image.plane[55 + i + 1][17 + j + 1]

\* C6 amended: loss_crop returns a (25, 8) single-precision tensor whose entry
\* (i, j) is the input's entry (0,0,55+i,17+j) converted to float32: equal to
\* it when the input is float32 or the value has a float32 representation,
\* the nearest float32 otherwise.
C6_LossCropWindowAsFloat32 ==
    LossCropInput
    => /\ result.shape = <<25, 8>>
       /\ result.dtype = "float32"
       /\ \A i \in 0..24, j \in 0..7 :
              LET in == args.image.plane[55 + i + 1][17 + j + 1]
                  out == result.plane[i + 1][j + 1]
              IN  /\ out = ToFloat32(in)
                  /\ (args.image.dtype = "float32" \/ in <= 16777216) => out = in

\* C6 witness: a float64 input whose cropped pixels need more than 24 bits
\* came back as a (25, 8) tensor with a rounded entry.
C6_Witness ==
    /\ LossCropInput
    /\ args.image.dtype = "float64"
    /\ result.shape = <<25, 8>>
    /\ \E i \in 0..24, j \in 0..7 :
           result.plane[i + 1][j + 1] # args.image.plane[55 + i + 1][17 + j + 1]

\* C7 as stated: resize(image, H, L) returns an image of H-1 rows and L-1
\* columns for every requested H and L (taken here as positive, on a
\* non-empty image), regardless of the input image's shape.
C7_ResizeAlwaysReturns ==
    (op = "resize" /\ args.height >= 1 /\ args.length >= 1
        /\ args.image[1] >= 1 /\ args.image[2] >= 1)
    => /\ result.kind = "array"
       /\ result.shape[1] = args.height - 1
       /\ result.shape[2] = args.length - 1

\* C7 amended: for H >= 2 and L >= 2 resize(image, H, L) returns, for every
\* non-empty input image whatever its shape, an image of H-1 rows and L-1
\* columns (a colour image keeps its channel axis); for H <= 1 or L <= 1 the
\* call raises instead of returning.
C7_ResizeShape ==
    (op = "resize" /\ args.image[1] >= 1 /\ args.image[2] >= 1)
    => /\ (args.height >= 2 /\ args.length >= 2)
              => /\ result.kind = "array"
                 /\ result.shape[1] = args.height - 1
                 /\ result.shape[2] = args.length - 1
                 /\ SubSeq(result.shape, 3, Len(result.shape))
                        = SubSeq(args.image, 3, Len(args.image))
       /\ (args.height <= 1 \/ args.length <= 1) => IsError(result)

\* C7 witness: a 2 x 1 image resized with H = 4, L = 3 came back 3 x 2.
C7_Witness ==
    /\ op = "resize"
    /\ args.image = <<2, 1>>
    /\ args.height = 4 /\ args.length = 3
    /\ result.kind = "array"
    /\ result.shape = <<3, 2>>

\* The arguments of Decoder.forward fit together: one skip map per step, the
\* input has the first channel count, and skip i brings the channels that
\* make step i's concatenation as wide as decoder block i expects.
DecoderArgsConsistent ==
    LET c == args.num_channels
        skips == args.encoder_features.items
    IN  /\ Len(skips) = Len(c) - 1
        /\ args.x.shape[2] = c[1]
        /\ \A i \in 1..Len(skips) :
               /\ skips[i].shape[1] = args.x.shape[1]
               /\ skips[i].shape[2] = c[i] - c[i + 1]

\* The skip maps a decoder output was concatenated with, in step order.
CatSources(hist) ==
    LET cats == SelectSeq(hist, LAMBDA e : e.op = "cat")
    IN  [i \in 1..Len(cats) |-> cats[i].with[1]]

\* C8 as stated: Decoder.forward with n >= 1 steps (n >= 2 included) and a
\* list of n skip maps completes when the channel counts are consistent, and
\* step i upsamples, crops the caller's i-th skip map, concatenates and
\* applies block i, so step i consumes the caller's i-th skip map.
C8_StepUsesCallersSkip ==
    (op = "Decoder.forward" /\ Len(args.num_channels) >= 2 /\ DecoderArgsConsistent)
    => /\ IsTensor(result)
       /\ CatSources(result.hist)
              = [i \in 1..(Len(args.num_channels) - 1) |-> Layer("skip", i - 1)]

\* 2^(number of encoder blocks): the least height and width that survive the
\* pooling after every encoder block.
MinInputSize == Pow2(Len(args.encoder_channels) - 1)

DecoderSteps == Len(args.decoder_channels) - 1

EncoderBlocks == Len(args.encoder_channels) - 1

ChannelMismatch ==
    args.decoder_channels[1] # args.encoder_channels[Len(args.encoder_channels)]

InputTooSmall == args.x.shape[3] < MinInputSize \/ args.x.shape[4] < MinInputSize

\* C9 as stated: a UNet / ParamUnet forward pass ends in an error, and returns
\* no output, when the decoder's first channel count differs from the
\* encoder's last, when the number of decoder steps differs from the number of
\* encoder blocks minus one (shorter or longer), and when the input is too
\* small for the pooling depth.
C9_EveryMismatchRaises ==
    (op \in {"UNet.forward", "ParamUnet.forward"}
        /\ (ChannelMismatch \/ DecoderSteps # EncoderBlocks - 1 \/ InputTooSmall))
    => IsError(result.ret)

\* C9 amended: the forward pass ends in an error, and returns no output, when
\* the decoder's first channel count differs from the encoder's last, when the
\* decoder has more steps than the encoder has blocks minus one, and when the
\* input height or width is below 2^(encoder blocks); a decoder with fewer
\* steps than that is not rejected for its length.
C9_MismatchRaises ==
    (op \in {"UNet.forward", "ParamUnet.forward"}
        /\ (ChannelMismatch \/ DecoderSteps > EncoderBlocks - 1 \/ InputTooSmall))
    => IsError(result.ret)

\* C9 witness: a UNet whose decoder starts at 64 channels on a 128-channel
\* encoder failed in the first transposed convolution.
C9_Witness ==
    /\ op = "UNet.forward"
    /\ args.encoder_channels = <<1, 64, 128>>
    /\ args.decoder_channels = <<64, 32>>
    /\ ~InputTooSmall
    /\ IsError(result.ret)
    /\ result.ret.at = "upconv"
    /\ result.stages = <<"encoder", "reverse", "decoder">>

\* Feature map i (0-based) of Encoder.forward is block i's output before
\* pooling, of shape (B, c[i+1], floor(H/2^i), floor(W/2^i)), and block i+1
\* reads the pooled output of block i.
EncoderFeaturesAsClaimed ==
    LET c == args.num_channels
        x == args.x
        maps == result.items
    IN  /\ result.kind = "list"
        /\ Len(maps) = Len(c) - 1
        /\ \A i \in 0..(Len(maps) - 1) :
               /\ maps[i + 1].shape = <<x.shape[1], c[i + 2],
                                        x.shape[3] \div Pow2(i), x.shape[4] \div Pow2(i)>>
               /\ maps[i + 1].hist =
                      (IF i = 0 THEN x.hist
                       ELSE Append(maps[i].hist, Layer("maxpool", 0)))
                          \o <<Layer("encoder_blocks", i)>>
        /\ \A i \in 1..(Len(maps) - 1) :
               /\ maps[i + 1].shape[3] <= maps[i].shape[3]
               /\ maps[i + 1].shape[4] <= maps[i].shape[4]

\* C10 as stated: Encoder.forward with channel sequence c of length n+1 on an
\* input (B, c[0], H, W) returns exactly n feature maps, the i-th being block
\* i's output before pooling with shape (B, c[i+1], floor(H/2^i), floor(W/2^i)).
C10_EncoderAlwaysReturns ==
    (op = "Encoder.forward" /\ args.x.shape[2] = args.num_channels[1])
    => EncoderFeaturesAsClaimed

\* C10 amended: the same, provided H >= 2^n and W >= 2^n: every block, the
\* last included, is followed by a pooling that raises on an empty output.
C10_EncoderFeatures ==
    (op = "Encoder.forward" /\ args.x.shape[2] = args.num_channels[1]
        /\ args.x.shape[3] >= Pow2(Len(args.num_channels) - 1)
        /\ args.x.shape[4] >= Pow2(Len(args.num_channels) - 1))
    => EncoderFeaturesAsClaimed

\* C10 witness: the encoder (1, 64, 128, 256) on an input (2,1,9,8) returned
\* three maps, the last of shape (2,256,2,2).
C10_Witness ==
    /\ op = "Encoder.forward"
    /\ args.num_channels = <<1, 64, 128, 256>>
    /\ args.x.shape = <<2, 1, 9, 8>>
    /\ result.kind = "list"
    /\ Len(result.items) = 3
    /\ result.items[3].shape = <<2, 256, 2, 2>>

====
